---------------------------- MODULE Spec2Model ----------------------------
(***************************************************************************)
(* Product / Sale consistency of the HB jewelry dashboard.                 *)
(*                                                                         *)
(* The store holds two collections, "products" and "sales".  Clients open  *)
(* dialogs on a product (the dialog keeps the product object it was opened *)
(* with), and the dialogs' onSubmit handlers commit write batches.         *)
(*                                                                         *)
(* EditProductDialog.onSubmit awaits a query between preparing its batch   *)
(* and committing it, so it is two steps: EditQuery and EditCommit.  The   *)
(* form values are an input that no other step reads; the model draws them *)
(* where the batch is committed, which gives the same behaviours of the    *)
(* store and keeps the state of a waiting dialog small.                    *)
(*                                                                         *)
(* The dashboard of a reader holds the latest snapshot of each collection  *)
(* and a date range; what it shows (filtered sales, KPIs, daily series,    *)
(* latest sale, owner shares) is recomputed from that state on every       *)
(* render, so it is modelled as operators over the state.  Times of the    *)
(* reader are milliseconds; money and weights are exact rationals (the     *)
(* rounding of floating point is outside the model).                       *)
(***************************************************************************)
EXTENDS Integers, FiniteSets, Sequences, TLC

VARIABLES
    products,      \* collection "products": document id -> fields
    sales,         \* collection "sales": document id -> fields
    now,           \* store clock: the time of the latest commit
    nextProduct,   \* number of auto-ids handed out in "products"
    nextSale,      \* number of auto-ids handed out in "sales"
    dlg,           \* per client: the open dialog, its product prop, its batch
    last,          \* the latest toast shown to a user
    revertedAt,    \* history: soldAt of the sale row the latest revert removed
    viewProducts,  \* DashboardPage state `products` of the reader
    viewSales,     \* DashboardPage state `sales` of the reader
    owners,        \* collection "owners": document id -> fields
    nextOwner,     \* number of auto-ids handed out in "owners"
    boot,          \* per client: position of the seed + subscribe effect
    viewOwners,    \* DashboardPage state `owners` of the reader
    dateRange,     \* DashboardPage state `dateRange` of the reader
    today,         \* the reader's clock, `new Date()`, in milliseconds
    zone           \* the reader's time zone: local time minus UTC, in ms

vars == <<products, sales, now, nextProduct, nextSale, dlg, last, revertedAt,
          viewProducts, viewSales, owners, nextOwner, boot, viewOwners,
          dateRange, today, zone>>

\* the owner collection and the reader's owner list, range and clock
ownerVars == <<owners, nextOwner, boot, viewOwners, dateRange, today, zone>>

\* the product and sale collections, their dialogs and their reader state
productVars == <<products, sales, now, nextProduct, nextSale, dlg, last,
                 revertedAt, viewProducts, viewSales>>

store == <<products, sales>>

---------------------------------------------------------------------------
(* Bounds of the model *)

MaxTime == 4
MaxPrice == 1
MaxProducts == 1
MaxStray == 2
MaxViewSales == 2
MaxCreated == 1
MaxContribution == 2

Clients == {"c1", "c2"}
Names == {"a"}
Prices == 0..MaxPrice

\* the owner ids that can be handed out: two racing seeds and the added owners
MaxOwnerIds == 2 * 3 + MaxCreated

---------------------------------------------------------------------------
(* Values *)

\* null, and also a field that is absent from a document (`?? null`)
Null == 0 - 100
\* Number("abc")
NaN == 0 - 200

ProductId(n) == <<"p", n>>
AutoSaleId(k) == <<"r", k>>

\* what a numeric <input> can hold: nothing, text that is no number, a number
RawNumbers ==
    {[t |-> "empty"], [t |-> "text"]} \cup
    {[t |-> "num", n |-> k] : k \in (0 - 1)..MaxPrice}

EditInputs == [name : Names, buyPriceBHD : Prices, soldPriceBHD : RawNumbers,
               sold : BOOLEAN]

Closed == [kind |-> "none"]
NoToast == [op |-> "none", cause |-> "none", toast |-> "none",
            hadSale |-> FALSE, strays |-> 0, gone |-> 0]

\* batch.update / set(..., {merge: true}): the given fields replace the
\* stored ones, every other stored field is kept
Merge(existing, fields) ==
    [f \in DOMAIN existing \cup DOMAIN fields |->
        IF f \in DOMAIN fields THEN fields[f] ELSE existing[f]]

\* the documents of `coll` without the ids in `ids`
Without(coll, ids) == [i \in DOMAIN coll \ ids |-> coll[i]]

\* the documents of `coll` with document `id` set to `d`
WithDoc(coll, id, d) ==
    [i \in DOMAIN coll \cup {id} |-> IF i = id THEN d ELSE coll[i]]

---------------------------------------------------------------------------
(* Form schemas and field preparation *)

\* edit schema, soldPriceBHD: (v === "" || v == null ? undefined : Number(v))
Preprocess(raw) ==
    IF raw.t = "empty" THEN Null
    ELSE IF raw.t = "text" THEN NaN
    ELSE raw.n

\* edit schema, soldPriceBHD: z.number().min(0).optional()
EditSchemaOk(v) ==
    LET n == Preprocess(v.soldPriceBHD)
    IN  n = Null \/ (n # NaN /\ n >= 0)

\* the values handleSubmit passes to onSubmit
Parsed(v) == [v EXCEPT !.soldPriceBHD = Preprocess(v.soldPriceBHD)]

\* typeof values.soldPriceBHD === "number" ? Number(...) : undefined
SoldPriceOf(values) == values.soldPriceBHD

\* mutant: step 2 of onSubmit lets every form through
MissingSoldPriceNever(values) == FALSE

\* soldFlag && (soldPrice == null || Number.isNaN(soldPrice))
MissingSoldPrice(values) ==
    values.sold /\ (SoldPriceOf(values) = Null \/ SoldPriceOf(values) = NaN)

\* sold schema: z.coerce.number().min(0); Number("") is 0
Coerce(raw) ==
    IF raw.t = "empty" THEN 0
    ELSE IF raw.t = "text" THEN NaN
    ELSE raw.n

\* mutant: the sold schema is z.coerce.number()
SoldSchemaAny(raw) == Coerce(raw) # NaN

\* soldSchema: z.coerce.number().min(0)
SoldSchemaOk(raw) == Coerce(raw) # NaN /\ Coerce(raw) >= 0

\* mutant: buy - soldPrice
MinusSwapped(a, b) == IF a = NaN \/ b = NaN THEN NaN ELSE b - a

\* soldPrice - buy in floating point
Minus(a, b) == IF a = NaN \/ b = NaN THEN NaN ELSE a - b

\* x ?? d
OrElse(x, d) == IF x = Null THEN d ELSE x

Max(S) == CHOOSE x \in S : \A y \in S : y <= x

---------------------------------------------------------------------------
(* The writes of EditProductDialog.onSubmit *)

\* mutant: soldAt is stamped on every Edit that leaves the product sold
EditProductFieldsRestamp(product, values, t) ==
    [name |-> values.name,
     buyPriceBHD |-> values.buyPriceBHD,
     soldPriceBHD |-> SoldPriceOf(values),
     sold |-> values.sold,
     soldAt |-> IF values.sold THEN t ELSE Null,
     updatedAt |-> t]

\* the fields of batch.update(productRef, ...); `product` is the dialog's prop
EditProductFields(product, values, t) ==
    LET base == [name |-> values.name,
                 buyPriceBHD |-> values.buyPriceBHD,
                 soldPriceBHD |-> SoldPriceOf(values),
                 sold |-> values.sold,
                 updatedAt |-> t]
        first == IF values.sold /\ ~product.sold
                 THEN Merge(base, [soldAt |-> t]) ELSE base
    IN  IF ~values.sold THEN Merge(first, [soldAt |-> Null]) ELSE first

\* the fields of batch.set(saleRef, ..., {merge: true})
EditSaleFields(id, values, t) ==
    [productId |-> id,
     productName |-> values.name,
     buyPriceBHD |-> values.buyPriceBHD,
     soldPriceBHD |-> SoldPriceOf(values),
     profitBHD |-> Minus(SoldPriceOf(values), values.buyPriceBHD),
     soldAt |-> t,
     createdAt |-> t,
     updatedAt |-> t]

\* mutant: the sale row is kept when the product is edited to unsold
EditSaleSyncKeepsRow(coll, id, values, t) ==
    IF values.sold /\ SoldPriceOf(values) # Null
    THEN WithDoc(coll, id,
                 IF id \in DOMAIN coll
                 THEN Merge(coll[id], EditSaleFields(id, values, t))
                 ELSE EditSaleFields(id, values, t))
    ELSE coll

\* step 4 of onSubmit: set-merge the sale row, or delete it
EditSaleSync(coll, id, values, t) ==
    IF values.sold /\ SoldPriceOf(values) # Null
    THEN WithDoc(coll, id,
                 IF id \in DOMAIN coll
                 THEN Merge(coll[id], EditSaleFields(id, values, t))
                 ELSE EditSaleFields(id, values, t))
    ELSE Without(coll, {id})

\* mutant: the clean-up takes the first stray of the query only
StraySalesFirst(coll, id) ==
    LET all == {i \in DOMAIN coll : coll[i].productId = id /\ i # id}
    IN  {i \in all : \A j \in all : i[2] <= j[2]}

\* step 5 of onSubmit: the sales the query returns whose id is not the product's
StraySales(coll, id) ==
    {i \in DOMAIN coll : coll[i].productId = id /\ i # id}

---------------------------------------------------------------------------
(* The reader's calendar (date-fns, local time) *)

\* milliseconds of a day
DayMs == 86400000

\* the clock-skew slack of filteredSales
Slack == 60000

\* the zones of the readers: UTC and UTC+3
Zones == {0, 10800000}

\* days are counted from 1970-01-01 (day 0); the reader's `new Date()` is on
\* 1970-01-11
Today == 10

\* local midnight of day d in zone z, as a time
LocalDay(d, z) == d * DayMs - z

\* a moment in the middle of day d
Noon(d, z) == LocalDay(d, z) + DayMs \div 2

\* the calendar day of time t
DayIndex(t, z) == (t + z) \div DayMs

\* startOfDay(t), endOfDay(t), subDays(t, n)
StartOfDay(t, z) == LocalDay(DayIndex(t, z), z)
EndOfDay(t, z) == StartOfDay(t, z) + DayMs - 1
RECURSIVE SubDays(_, _)
SubDays(t, n) == IF n = 0 THEN t ELSE SubDays(t - DayMs, n - 1)

\* useState: { from: subDays(new Date(), 29), to: new Date() }
DefaultRange(t) == [from |-> SubDays(t, 29), to |-> t]

---------------------------------------------------------------------------
(* Initial state: an empty store, no dialog open *)

InitZone(z) ==
    /\ products = <<>>
    /\ sales = <<>>
    /\ now = 0
    /\ nextProduct = 0
    /\ nextSale = 0
    /\ dlg = [c \in Clients |-> Closed]
    /\ last = NoToast
    /\ revertedAt = [n \in 1..MaxProducts |-> Null]
    /\ viewProducts = <<>>
    /\ viewSales = <<>>
    /\ owners = <<>>
    /\ nextOwner = 0
    /\ boot = [c \in Clients |-> "idle"]
    /\ viewOwners = <<>>
    /\ zone = z
    /\ today = Noon(Today, z)
    /\ dateRange = DefaultRange(Noon(Today, z))

Init == InitZone(0)

\* a toast; hadSale, strays and gone are history: what a committed Edit
\* found in "sales" (the product's own row, the number of other rows it
\* deleted, the number of rows of its query that were deleted already)
Toast(op, cause, toast) ==
    [op |-> op, cause |-> cause, toast |-> toast, hadSale |-> FALSE,
     strays |-> 0, gone |-> 0]

---------------------------------------------------------------------------
(* AddProductDialog.onSubmit *)

AddProduct(name, buy) ==
    /\ nextProduct < MaxProducts
    /\ now < MaxTime
    /\ now' = now + 1
    /\ nextProduct' = nextProduct + 1
    /\ products' = WithDoc(products, ProductId(nextProduct + 1),
                           [name |-> name,
                            buyPriceBHD |-> buy,
                            soldPriceBHD |-> Null,
                            sold |-> FALSE,
                            soldAt |-> Null,
                            createdAt |-> now + 1,
                            updatedAt |-> now + 1])
    /\ last' = Toast("add", "none", "Success")
    /\ UNCHANGED <<sales, nextSale, dlg, revertedAt, viewProducts, viewSales>>

---------------------------------------------------------------------------
(* EditProductDialog *)

\* the fields of its `product` prop that EditProductDialog.onSubmit reads
EditProp(doc) == [sold |-> doc.sold]

\* ProductsSection.openEditFor: the dialog keeps the product it was opened with
OpenEdit(c, id) ==
    /\ dlg[c] = Closed
    /\ id \in DOMAIN products
    /\ dlg' = [dlg EXCEPT ![c] =
                  [kind |-> "edit", pc |-> "form", id |-> id,
                   product |-> EditProp(products[id])]]
    /\ UNCHANGED <<products, sales, now, nextProduct, nextSale, last,
                   revertedAt, viewProducts, viewSales>>

\* the resolver rejects the form: onSubmit is not called
EditRejected(c) ==
    /\ dlg[c].kind = "edit" /\ dlg[c].pc = "form"
    /\ \E v \in EditInputs : ~EditSchemaOk(v)
    /\ last' = Toast("edit", "schema", "none")
    /\ UNCHANGED <<products, sales, now, nextProduct, nextSale, dlg,
                   revertedAt, viewProducts, viewSales>>

\* onSubmit, step 2: sold without a sold price
EditMissingSoldPrice(c) ==
    /\ dlg[c].kind = "edit" /\ dlg[c].pc = "form"
    /\ \E v \in EditInputs : EditSchemaOk(v) /\ MissingSoldPrice(Parsed(v))
    /\ last' = Toast("edit", "validation", "Missing sold price")
    /\ UNCHANGED <<products, sales, now, nextProduct, nextSale, dlg,
                   revertedAt, viewProducts, viewSales>>

\* values that pass the resolver and step 2 of onSubmit
EditAccepted(v) == EditSchemaOk(v) /\ ~MissingSoldPrice(Parsed(v))

\* onSubmit, steps 2 to 5 up to `await getDocs`: accepted values were
\* submitted, the batch is prepared and the query has answered
EditQuery(c) ==
    /\ dlg[c].kind = "edit" /\ dlg[c].pc = "form"
    /\ \E v \in EditInputs : EditAccepted(v)
    /\ dlg' = [dlg EXCEPT ![c] =
                  [kind |-> "edit", pc |-> "queried", id |-> dlg[c].id,
                   product |-> dlg[c].product,
                   dups |-> StraySales(sales, dlg[c].id)]]
    /\ UNCHANGED <<products, sales, now, nextProduct, nextSale, last,
                   revertedAt, viewProducts, viewSales>>

\* mutant: a failed query is swallowed and the batch is committed without
\* the clean-up
EditQueryFailIgnored(c) ==
    /\ dlg[c].kind = "edit" /\ dlg[c].pc = "form"
    /\ dlg[c].id \in DOMAIN products
    /\ now < MaxTime
    /\ \E v \in EditInputs :
         /\ EditAccepted(v)
         /\ products' = WithDoc(products, dlg[c].id,
                 Merge(products[dlg[c].id],
                       EditProductFields(dlg[c].product, Parsed(v), now + 1)))
         /\ sales' = EditSaleSync(sales, dlg[c].id, Parsed(v), now + 1)
    /\ now' = now + 1
    /\ dlg' = [dlg EXCEPT ![c] = Closed]
    /\ last' = Toast("edit", "query", "Updated")
    /\ UNCHANGED <<nextProduct, nextSale, revertedAt, viewProducts, viewSales>>

\* onSubmit: `await getDocs` throws; the catch block reports it
EditQueryFail(c) ==
    /\ dlg[c].kind = "edit" /\ dlg[c].pc = "form"
    /\ \E v \in EditInputs : EditAccepted(v)
    /\ last' = Toast("edit", "query", "Error")
    /\ UNCHANGED <<products, sales, now, nextProduct, nextSale, dlg,
                   revertedAt, viewProducts, viewSales>>

\* mutant: a delete of a document that is gone rejects the batch
EditBatchAppliesStrict(c) ==
    dlg[c].id \in DOMAIN products /\ dlg[c].dups \subseteq DOMAIN sales

\* what the batch needs of the store: batch.update needs its document,
\* batch.set and batch.delete need none
EditBatchApplies(c) == dlg[c].id \in DOMAIN products

\* the documents after the batch of client c with values v commits at t
EditBatchProducts(c, values, t) ==
    WithDoc(products, dlg[c].id,
            Merge(products[dlg[c].id],
                  EditProductFields(dlg[c].product, values, t)))

\* mutant: the batch leaves the stray rows alone
EditBatchSalesNoCleanup(c, values, t) ==
    EditSaleSync(sales, dlg[c].id, values, t)

EditBatchSales(c, values, t) ==
    Without(EditSaleSync(sales, dlg[c].id, values, t), dlg[c].dups)

\* mutant: the sale write lands although the product document is gone
EditCommitNotAtomic(c, v) ==
    /\ dlg[c].kind = "edit" /\ dlg[c].pc = "queried"
    /\ EditAccepted(v)
    /\ now < MaxTime
    /\ now' = now + 1
    /\ products' = IF dlg[c].id \in DOMAIN products
                   THEN EditBatchProducts(c, Parsed(v), now + 1)
                   ELSE products
    /\ sales' = EditBatchSales(c, Parsed(v), now + 1)
    /\ dlg' = [dlg EXCEPT ![c] = Closed]
    /\ last' = Toast("edit", "none", "Updated")
    /\ UNCHANGED <<nextProduct, nextSale, revertedAt, viewProducts, viewSales>>

\* onSubmit: `await batch.commit()` succeeds
EditCommit(c, v) ==
    /\ dlg[c].kind = "edit" /\ dlg[c].pc = "queried"
    /\ EditAccepted(v)
    /\ EditBatchApplies(c)
    /\ now < MaxTime
    /\ now' = now + 1
    /\ products' = EditBatchProducts(c, Parsed(v), now + 1)
    /\ sales' = EditBatchSales(c, Parsed(v), now + 1)
    /\ dlg' = [dlg EXCEPT ![c] = Closed]
    /\ last' = [Toast("edit", "none", "Updated") EXCEPT
                  !.hadSale = dlg[c].id \in DOMAIN sales,
                  !.strays = Cardinality(dlg[c].dups \cap DOMAIN sales),
                  !.gone = Cardinality(dlg[c].dups \ DOMAIN sales)]
    /\ revertedAt' =
         LET removed == DOMAIN sales \ DOMAIN sales'
         IN  IF ~Parsed(v).sold /\ removed # {}
             THEN [revertedAt EXCEPT ![dlg[c].id[2]] =
                       Max({sales[i].soldAt : i \in removed})]
             ELSE revertedAt
    /\ UNCHANGED <<nextProduct, nextSale, viewProducts, viewSales>>

\* onSubmit: `await batch.commit()` rejects (offline, permission, or the
\* product document is gone); the catch block reports it
EditCommitFail(c) ==
    /\ dlg[c].kind = "edit" /\ dlg[c].pc = "queried"
    /\ dlg' = [dlg EXCEPT ![c] =
                  [kind |-> "edit", pc |-> "form", id |-> dlg[c].id,
                   product |-> dlg[c].product]]
    /\ last' = Toast("edit", "commit", "Error")
    /\ UNCHANGED <<products, sales, now, nextProduct, nextSale, revertedAt,
                   viewProducts, viewSales>>

---------------------------------------------------------------------------
(* MarkSoldDialog *)

\* the fields of its `product` prop that MarkSoldDialog.onSubmit reads
SoldProp(doc) == [name |-> doc.name, buyPriceBHD |-> doc.buyPriceBHD]

\* ProductActions: "Mark as Sold" is disabled for a sold product
OpenSold(c, id) ==
    /\ dlg[c] = Closed
    /\ id \in DOMAIN products
    /\ ~products[id].sold
    /\ dlg' = [dlg EXCEPT ![c] =
                  [kind |-> "sold", pc |-> "form", id |-> id,
                   product |-> SoldProp(products[id])]]
    /\ UNCHANGED <<products, sales, now, nextProduct, nextSale, last,
                   revertedAt, viewProducts, viewSales>>

MarkSoldRejected(c) ==
    /\ dlg[c].kind = "sold"
    /\ \E raw \in RawNumbers : ~SoldSchemaOk(raw)
    /\ last' = Toast("sold", "schema", "none")
    /\ UNCHANGED <<products, sales, now, nextProduct, nextSale, dlg,
                   revertedAt, viewProducts, viewSales>>

\* the fields of batch.update(productRef, ...)
SoldProductFields(price, t) ==
    [sold |-> TRUE, soldPriceBHD |-> price, soldAt |-> t, updatedAt |-> t]

\* the fields of batch.set(saleRef, ...); the document has no updatedAt
SoldSaleFields(id, product, price, t) ==
    [productId |-> id,
     productName |-> product.name,
     buyPriceBHD |-> OrElse(product.buyPriceBHD, 0),
     soldPriceBHD |-> price,
     profitBHD |-> Minus(price, OrElse(product.buyPriceBHD, 0)),
     soldAt |-> t,
     createdAt |-> t,
     updatedAt |-> Null]

\* doc(collection(db, "sales")): the id of the sale row MarkSold writes for
\* product `id`, the k-th auto-id of the collection
SoldSaleId(id, k) == AutoSaleId(k)

MarkSold(c, raw) ==
    /\ dlg[c].kind = "sold"
    /\ SoldSchemaOk(raw)
    /\ dlg[c].id \in DOMAIN products
    /\ now < MaxTime
    /\ nextSale < MaxStray
    /\ now' = now + 1
    /\ nextSale' = nextSale + 1
    /\ products' = WithDoc(products, dlg[c].id,
                           Merge(products[dlg[c].id],
                                 SoldProductFields(Coerce(raw), now + 1)))
    /\ sales' = WithDoc(sales, SoldSaleId(dlg[c].id, nextSale + 1),
                        SoldSaleFields(dlg[c].id, dlg[c].product,
                                       Coerce(raw), now + 1))
    /\ dlg' = [dlg EXCEPT ![c] = Closed]
    /\ last' = Toast("sold", "none", "Success")
    /\ UNCHANGED <<nextProduct, revertedAt, viewProducts, viewSales>>

\* `await batch.commit()` rejects; the catch block reports it
MarkSoldFail(c) ==
    /\ dlg[c].kind = "sold"
    /\ \E raw \in RawNumbers : SoldSchemaOk(raw)
    /\ last' = Toast("sold", "commit", "Error")
    /\ UNCHANGED <<products, sales, now, nextProduct, nextSale, dlg,
                   revertedAt, viewProducts, viewSales>>

\* handleOpenChange(false): the user closes a dialog that is not submitting
CloseDialog(c) ==
    /\ dlg[c].kind \in {"edit", "sold"} /\ dlg[c].pc = "form"
    /\ dlg' = [dlg EXCEPT ![c] = Closed]
    /\ UNCHANGED <<products, sales, now, nextProduct, nextSale, last,
                   revertedAt, viewProducts, viewSales>>

---------------------------------------------------------------------------
(* DashboardPage.handleConfirmDelete *)

DeleteProduct(id) ==
    /\ id \in DOMAIN products
    /\ products' = Without(products, {id})
    /\ last' = Toast("delete", "none", "Success")
    /\ UNCHANGED <<sales, now, nextProduct, nextSale, dlg, revertedAt,
                   viewProducts, viewSales>>

---------------------------------------------------------------------------
(* DashboardPage subscriptions: each onSnapshot listener delivers on its own *)

DeliverProducts ==
    /\ viewProducts # products
    /\ viewProducts' = products
    /\ UNCHANGED <<products, sales, now, nextProduct, nextSale, dlg, last,
                   revertedAt, viewSales>>

DeliverSales ==
    /\ viewSales # sales
    /\ viewSales' = sales
    /\ UNCHANGED <<products, sales, now, nextProduct, nextSale, dlg, last,
                   revertedAt, viewProducts>>

---------------------------------------------------------------------------
(* The lists the dashboard computes from its snapshots *)

\* a sale document without a productId
NoId == <<>>

\* `latestSale` when there is none (null)
NoSale == [id |-> NoId]

\* a query returns the documents in the order of their ids
IdLess(a, b) == (a[1] = "p" /\ b[1] # "p") \/ (a[1] = b[1] /\ a[2] < b[2])

RECURSIVE IdList(_)
IdList(ids) ==
    IF ids = {} THEN <<>>
    ELSE LET m == CHOOSE a \in ids : \A b \in ids \ {a} : IdLess(a, b)
         IN  <<m>> \o IdList(ids \ {m})

\* snap.forEach((d) => list.push({ id: d.id, ...d.data() }))
ListOf(coll) ==
    LET ids == IdList(DOMAIN coll)
    IN  [i \in 1..Len(ids) |-> Merge(coll[ids[i]], [id |-> ids[i]])]

\* nums.reduce((sum, x) => sum + x, 0)
RECURSIVE SumSeq(_)
SumSeq(nums) == IF nums = <<>> THEN 0 ELSE Head(nums) + SumSeq(Tail(nums))

\* list.reduce((sum, x) => sum + F(x), 0)
SumOver(list, F(_)) == SumSeq([i \in 1..Len(list) |-> F(list[i])])

\* x || 0
OrZero(x) == IF x = Null \/ x = NaN THEN 0 ELSE x

\* a stable sort of [key, val] pairs, ascending by key
RECURSIVE SortPairs(_)
SortPairs(pairs) ==
    IF pairs = <<>> THEN <<>>
    ELSE LET rest == SortPairs(SubSeq(pairs, 1, Len(pairs) - 1))
             x == pairs[Len(pairs)]
             n == Cardinality({i \in 1..Len(rest) : rest[i].key <= x.key})
         IN  SubSeq(rest, 1, n) \o <<x>> \o SubSeq(rest, n + 1, Len(rest))

\* [...list].sort((a, b) => Key(a) - Key(b))
SortAsc(list, Key(_)) ==
    LET sorted == SortPairs([i \in 1..Len(list) |->
                                [key |-> Key(list[i]), val |-> list[i]]])
    IN  [i \in 1..Len(sorted) |-> sorted[i].val]

---------------------------------------------------------------------------
(* DashboardPage: filteredSales, kpis, dailyData *)

\* mutant: the slack is applied to the lower bound only
FilteredSalesLowerSlackOnly(saleDocs, productDocs, range, t, z) ==
    IF range.from = Null THEN <<>>
    ELSE LET fromMs == StartOfDay(range.from, z) - Slack
             toMs == IF range.to # Null THEN EndOfDay(range.to, z)
                     ELSE EndOfDay(t, z)
             Keep(sale) ==
                 /\ sale.productId # NoId
                 /\ sale.productId \in DOMAIN productDocs
                 /\ sale.soldAt # Null
                 /\ sale.soldAt >= fromMs /\ sale.soldAt <= toMs
         IN  SelectSeq(ListOf(saleDocs), Keep)

\* mutant: the sales of products that no longer exist are kept
FilteredSalesKeepsOrphans(saleDocs, productDocs, range, t, z) ==
    IF range.from = Null THEN <<>>
    ELSE LET fromMs == StartOfDay(range.from, z) - Slack
             toMs == (IF range.to # Null THEN EndOfDay(range.to, z)
                      ELSE EndOfDay(t, z)) + Slack
             Keep(sale) ==
                 /\ sale.productId # NoId
                 /\ sale.soldAt # Null
                 /\ sale.soldAt >= fromMs /\ sale.soldAt <= toMs
         IN  SelectSeq(ListOf(saleDocs), Keep)

\* mutant: a sale whose id is not its product's id is left out
FilteredSalesCanonicalOnly(saleDocs, productDocs, range, t, z) ==
    IF range.from = Null THEN <<>>
    ELSE LET fromMs == StartOfDay(range.from, z) - Slack
             toMs == (IF range.to # Null THEN EndOfDay(range.to, z)
                      ELSE EndOfDay(t, z)) + Slack
             Keep(sale) ==
                 /\ sale.productId # NoId
                 /\ sale.productId \in DOMAIN productDocs
                 /\ sale.id = sale.productId
                 /\ sale.soldAt # Null
                 /\ sale.soldAt >= fromMs /\ sale.soldAt <= toMs
         IN  SelectSeq(ListOf(saleDocs), Keep)

\* filteredSales; t is `new Date()`, z the reader's zone
FilteredSales(saleDocs, productDocs, range, t, z) ==
    IF range.from = Null THEN <<>>
    ELSE LET fromMs == StartOfDay(range.from, z) - Slack
             toMs == (IF range.to # Null THEN EndOfDay(range.to, z)
                      ELSE EndOfDay(t, z)) + Slack
             Keep(sale) ==
                 /\ sale.productId # NoId
                 /\ sale.productId \in DOMAIN productDocs
                 /\ sale.soldAt # Null
                 /\ sale.soldAt >= fromMs /\ sale.soldAt <= toMs
         IN  SelectSeq(ListOf(saleDocs), Keep)

\* mutant: the cost is summed over the products of the sales in the range
KpisCostOfSold(productDocs, filtered) ==
    LET Cost(s) == OrElse(s.buyPriceBHD, 0)
        Revenue(s) == OrElse(s.soldPriceBHD, 0)
        Profit(s) == OrElse(s.profitBHD, 0)
    IN  [totalRevenue |-> SumOver(filtered, Revenue),
         totalCost |-> SumOver(filtered, Cost),
         totalProfit |-> SumOver(filtered, Profit),
         itemsSoldCount |-> Len(filtered)]

\* kpis
Kpis(productDocs, filtered) ==
    LET Unsold(p) == ~p.sold
        availableProducts == SelectSeq(ListOf(productDocs), Unsold)
        Cost(p) == OrElse(p.buyPriceBHD, 0)
        Revenue(s) == OrElse(s.soldPriceBHD, 0)
        Profit(s) == OrElse(s.profitBHD, 0)
    IN  [totalRevenue |-> SumOver(filtered, Revenue),
         totalCost |-> SumOver(availableProducts, Cost),
         totalProfit |-> SumOver(filtered, Profit),
         itemsSoldCount |-> Len(filtered)]

\* format(d, "yyyy-MM-dd") in the reader's zone (December 1969, January 1970)
FormatDay(t, z) ==
    LET n == DayIndex(t, z)
    IN  IF n < 0 THEN [y |-> 1969, m |-> 12, d |-> 32 + n]
        ELSE [y |-> 1970, m |-> 1, d |-> n + 1]

\* new Date("yyyy-MM-dd").getTime(): midnight UTC of that date
ParseDate(date) ==
    IF date.y = 1969 THEN (date.d - 32) * DayMs ELSE (date.d - 1) * DayMs

\* mutant: a later sale of a day replaces the day's amounts (= for +=)
RECURSIVE ByDayLastWins(_, _)
ByDayLastWins(filtered, z) ==
    IF filtered = <<>> THEN <<>>
    ELSE LET acc == ByDayLastWins(SubSeq(filtered, 1, Len(filtered) - 1), z)
             s == filtered[Len(filtered)]
             day == FormatDay(s.soldAt, z)
             at == {i \in 1..Len(acc) : acc[i].date = day}
             entry == [date |-> day,
                       revenue |-> OrZero(s.soldPriceBHD),
                       profit |-> OrZero(s.profitBHD)]
         IN  IF s.soldAt = Null THEN acc
             ELSE IF at = {} THEN Append(acc, entry)
             ELSE [i \in 1..Len(acc) |-> IF i \in at THEN entry ELSE acc[i]]

\* byDay[day] ||= {revenue: 0, profit: 0}; byDay[day].revenue += ...
\* (an object keeps its keys in the order they were added)
RECURSIVE ByDay(_, _)
ByDay(filtered, z) ==
    IF filtered = <<>> THEN <<>>
    ELSE LET acc == ByDay(SubSeq(filtered, 1, Len(filtered) - 1), z)
             s == filtered[Len(filtered)]
             day == FormatDay(s.soldAt, z)
             at == {i \in 1..Len(acc) : acc[i].date = day}
         IN  IF s.soldAt = Null THEN acc
             ELSE IF at = {}
             THEN Append(acc, [date |-> day,
                               revenue |-> OrZero(s.soldPriceBHD),
                               profit |-> OrZero(s.profitBHD)])
             ELSE [i \in 1..Len(acc) |->
                      IF i \in at
                      THEN [date |-> day,
                            revenue |-> acc[i].revenue + OrZero(s.soldPriceBHD),
                            profit |-> acc[i].profit + OrZero(s.profitBHD)]
                      ELSE acc[i]]

\* mutant: the entries are left in the order of Object.entries
DailyDataUnsorted(filtered, z) == ByDay(filtered, z)

\* dailyData
DailyData(filtered, z) ==
    LET Time(e) == ParseDate(e.date)
    IN  SortAsc(ByDay(filtered, z), Time)

---------------------------------------------------------------------------
(* OwnersSection: latestSale, weights, latestShares *)

\* the quotient n / d of two numbers, d > 0, kept exact
Frac(n, d) == [n |-> n, d |-> d]
FracEq(a, b) == a.n * b.d = b.n * a.d

\* Math.max(0, x)
Max0(x) == IF x < 0 THEN 0 ELSE x

\* filteredSales of OwnersSection: the sales of existing products, or, when
\* there is none, every sale that has a productId
OwnerFilteredSales(saleDocs, productDocs) ==
    LET HasPid(s) == s.productId # NoId
        Existing(s) == s.productId \in DOMAIN productDocs
        withPid == SelectSeq(ListOf(saleDocs), HasPid)
        withExisting == SelectSeq(withPid, Existing)
    IN  IF Len(withExisting) > 0 THEN withExisting ELSE withPid

\* (toJsDate(s.soldAt) ?? toJsDate(s.createdAt))?.getTime() ?? 0
SaleMs(s) ==
    IF s.soldAt # Null THEN s.soldAt
    ELSE IF s.createdAt # Null THEN s.createdAt
    ELSE 0

\* mutant: the oldest sale is taken
LatestSaleOldest(saleDocs, productDocs) ==
    LET list == OwnerFilteredSales(saleDocs, productDocs)
    IN  IF Len(list) = 0 THEN NoSale ELSE Head(SortAsc(list, SaleMs))

\* latestSale: sort((a, b) => bMs - aMs)[0]
LatestSale(saleDocs, productDocs) ==
    LET list == OwnerFilteredSales(saleDocs, productDocs)
        Desc(s) == 0 - SaleMs(s)
    IN  IF Len(list) = 0 THEN NoSale ELSE Head(SortAsc(list, Desc))

\* totalContribution
TotalContribution(ownerDocs) ==
    LET Amount(o) == o.contributionBHD
    IN  SumOver(ListOf(ownerDocs), Amount)

\* mutant: a negative contribution is not clamped
WeightsUnclamped(ownerDocs, latest) ==
    LET total == TotalContribution(ownerDocs)
    IN  IF DOMAIN ownerDocs = {} \/ latest = NoSale THEN <<>>
        ELSE IF total > 0
        THEN [o \in DOMAIN ownerDocs |->
                 Frac(ownerDocs[o].contributionBHD, total)]
        ELSE [o \in DOMAIN ownerDocs |-> Frac(1, Cardinality(DOMAIN ownerDocs))]

\* weights: by contribution, or equal
Weights(ownerDocs, latest) ==
    LET total == TotalContribution(ownerDocs)
    IN  IF DOMAIN ownerDocs = {} \/ latest = NoSale THEN <<>>
        ELSE IF total > 0
        THEN [o \in DOMAIN ownerDocs |->
                 Frac(Max0(OrZero(ownerDocs[o].contributionBHD)), total)]
        ELSE [o \in DOMAIN ownerDocs |-> Frac(1, Cardinality(DOMAIN ownerDocs))]

\* latestSale?.profitBHD ?? 0
LatestProfit(latest) ==
    IF latest = NoSale THEN 0 ELSE OrElse(latest.profitBHD, 0)

\* latestShares: latestProfit * (weights[o.id] ?? 0)
LatestShares(ownerDocs, latest) ==
    LET w == Weights(ownerDocs, latest)
    IN  IF latest = NoSale THEN <<>>
        ELSE [o \in DOMAIN ownerDocs |->
                 IF o \in DOMAIN w
                 THEN Frac(LatestProfit(latest) * w[o].n, w[o].d)
                 ELSE Frac(0, 1)]

\* what is shown for owner o: latestShares[o.id] || 0
ShownShare(shares, o) == IF o \in DOMAIN shares THEN shares[o] ELSE Frac(0, 1)

---------------------------------------------------------------------------
(* The reader's dashboard: snapshots arrive, the user picks a range *)

OwnerId(k) == <<"o", k>>

ProductDoc(buy, sold, price, t) ==
    [name |-> "a", buyPriceBHD |-> buy, soldPriceBHD |-> price,
     sold |-> sold, soldAt |-> IF sold THEN t ELSE Null,
     createdAt |-> t, updatedAt |-> t]

SaleDoc(pid, buy, price, soldAt, createdAt) ==
    [productId |-> pid, productName |-> "a", buyPriceBHD |-> buy,
     soldPriceBHD |-> price, profitBHD |-> Minus(price, buy),
     soldAt |-> soldAt, createdAt |-> createdAt, updatedAt |-> Null]

OwnerDoc(name, amount) == [name |-> name, contributionBHD |-> amount]

\* the day the sample sales and ranges are about: 1970-01-02
SampleDay == Today - 9

\* the first and the last time that the range [SampleDay, SampleDay] admits
FirstAdmitted(z) == LocalDay(SampleDay, z) - Slack
LastAdmitted(z) == LocalDay(SampleDay, z) + DayMs - 1 + Slack

\* the documents a snapshot of "products" can hold at `id`
SampleProducts(id) ==
    IF id = ProductId(1)
    THEN {ProductDoc(10, FALSE, Null, 0)}
    ELSE {ProductDoc(5, TRUE, 8, 0), ProductDoc(5, FALSE, Null, 0)}

\* the documents a snapshot of "sales" can hold in zone z: sales of product
\* 2 in the range, at and next to its ends, with and without timestamps,
\* sales of product 1, and a sale without a productId
SampleSales(z) ==
    {SaleDoc(ProductId(2), 5, 8, t, t) :
        t \in {FirstAdmitted(z) - 1, FirstAdmitted(z), Noon(SampleDay, z),
               LastAdmitted(z), LastAdmitted(z) + 1}}
    \cup {SaleDoc(ProductId(2), 5, 8, Null, Null),
          SaleDoc(ProductId(2), 5, 8, Null, FirstAdmitted(z))}
    \cup {SaleDoc(ProductId(1), 10, 30, t, t) :
            t \in {FirstAdmitted(z), LastAdmitted(z)}}
    \cup {SaleDoc(NoId, 3, 4, FirstAdmitted(z), FirstAdmitted(z))}

\* the documents a snapshot of "owners" can hold at `id`
SampleOwners(id) ==
    IF id = OwnerId(1)
    THEN {OwnerDoc("A", 0 - 10), OwnerDoc("A", 0), OwnerDoc("A", 30)}
    ELSE {OwnerDoc("B", 0), OwnerDoc("B", 70)}

\* the ranges the user picks in zone z: none, SampleDay alone, from it on,
\* a range whose end is before its start, and the initial last 30 days
SampleRanges(t, z) ==
    {[from |-> Null, to |-> Null],
     [from |-> Noon(SampleDay, z), to |-> LocalDay(SampleDay, z)],
     [from |-> Noon(SampleDay, z), to |-> Null],
     [from |-> LocalDay(SampleDay + 1, z), to |-> LocalDay(SampleDay, z)],
     DefaultRange(t)}

\* the snapshots that differ from `coll` in one document
Changes(coll, ids, Sample(_)) ==
    UNION {{WithDoc(coll, i, d) : d \in Sample(i)} : i \in ids}
    \cup {Without(coll, {i}) : i \in DOMAIN coll}

\* onSnapshot callback of "products": setProducts(list)
ProductsSnapshot(snap) ==
    /\ viewProducts' = snap
    /\ UNCHANGED <<products, sales, now, nextProduct, nextSale, dlg, last,
                   revertedAt, viewSales>>
    /\ UNCHANGED ownerVars

\* onSnapshot callback of "sales": setSales(list)
SalesSnapshot(snap) ==
    /\ viewSales' = snap
    /\ UNCHANGED <<products, sales, now, nextProduct, nextSale, dlg, last,
                   revertedAt, viewProducts>>
    /\ UNCHANGED ownerVars

\* onSnapshot callback of "owners": setOwners(list)
OwnersSnapshot(snap) ==
    /\ viewOwners' = snap
    /\ UNCHANGED productVars
    /\ UNCHANGED <<owners, nextOwner, boot, dateRange, today, zone>>

\* DateRangePicker: setDate(range)
SetDateRange(range) ==
    /\ dateRange' = range
    /\ UNCHANGED productVars
    /\ UNCHANGED <<owners, nextOwner, boot, viewOwners, today, zone>>

\* what the dashboard shows in the current state
filteredSales == FilteredSales(viewSales, viewProducts, dateRange, today, zone)
kpis == Kpis(viewProducts, filteredSales)
dailyData == DailyData(filteredSales, zone)
latestSale == LatestSale(viewSales, viewProducts)
weights == Weights(viewOwners, latestSale)
latestShares == LatestShares(viewOwners, latestSale)

---------------------------------------------------------------------------
(* The owners collection: seeding, CreateOwner, AddContribution.  An owner *)
(* document is its name and contributionBHD; its createdAt and updatedAt   *)
(* are written and never read.                                             *)

\* the default roster of the seed effect
Roster == <<"Yousif", "Hawra", "Bayan">>

\* what the owner name input can hold
OwnerNames == Names \cup {""}

\* the seed effect, first part: `await getDocs(ownersRef)` answers; an empty
\* collection makes the effect prepare the batch, any other one subscribe
SeedRead(c) ==
    /\ boot[c] = "idle"
    /\ boot' = [boot EXCEPT ![c] = IF DOMAIN owners = {} THEN "seeding"
                                   ELSE "subscribed"]
    /\ UNCHANGED productVars
    /\ UNCHANGED <<owners, nextOwner, viewOwners, dateRange, today, zone>>

\* the documents of the seed batch, under the next three auto-ids
SeedDocs(n) ==
    [id \in {OwnerId(n + k) : k \in 1..Len(Roster)} |->
        OwnerDoc(Roster[id[2] - n], 0)]

\* the seed effect, second part: `await batch.commit()` succeeds, then the
\* effect subscribes
SeedCommit(c) ==
    /\ boot[c] = "seeding"
    /\ owners' = SeedDocs(nextOwner) @@ owners
    /\ nextOwner' = nextOwner + Len(Roster)
    /\ boot' = [boot EXCEPT ![c] = "subscribed"]
    /\ UNCHANGED productVars
    /\ UNCHANGED <<viewOwners, dateRange, today, zone>>

\* getDocs or batch.commit() throws: the catch block logs, nothing is
\* written and the effect does not subscribe
SeedFail(c) ==
    /\ boot[c] \in {"idle", "seeding"}
    /\ boot' = [boot EXCEPT ![c] = "failed"]
    /\ UNCHANGED productVars
    /\ UNCHANGED <<owners, nextOwner, viewOwners, dateRange, today, zone>>

\* the dashboard is started again (the page is loaded again)
Restart(c) ==
    /\ boot[c] \in {"subscribed", "failed"}
    /\ boot' = [boot EXCEPT ![c] = "idle"]
    /\ UNCHANGED productVars
    /\ UNCHANGED <<owners, nextOwner, viewOwners, dateRange, today, zone>>

\* OwnersSection.handleCreateOwner lets the input through
CreateOwnerOk(name, raw) ==
    name # "" /\ Coerce(raw) # NaN /\ Coerce(raw) >= 0

\* DashboardPage.handleCreateOwner: Number(contributionBHD) || 0
CreateOwnerAmount(raw) == OrZero(Coerce(raw))

\* the owners the users added (the others are seeded)
Created == {id \in DOMAIN owners : owners[id].name \in Names}

\* "Save" of the Add New Owner dialog: OwnersSection.handleCreateOwner, then
\* DashboardPage.handleCreateOwner (addDoc)
CreateOwner(c, name, raw) ==
    /\ CreateOwnerOk(name, raw)
    /\ Cardinality(Created) < MaxCreated
    /\ owners' = WithDoc(owners, OwnerId(nextOwner + 1),
                         OwnerDoc(name, CreateOwnerAmount(raw)))
    /\ nextOwner' = nextOwner + 1
    /\ UNCHANGED productVars
    /\ UNCHANGED <<boot, viewOwners, dateRange, today, zone>>

\* mutant: the schema is z.coerce.number()
ContributionSchemaAny(raw) == Coerce(raw) # NaN

\* contributionSchema: z.coerce.number().positive()
ContributionSchemaOk(raw) == Coerce(raw) # NaN /\ Coerce(raw) > 0

\* AddContributionDialog.onSubmit: updateDoc(ownerRef, {contributionBHD:
\* increment(amount)}); the dialog is opened on an owner of the client's list
AddContribution(c, id, raw) ==
    /\ boot[c] = "subscribed"
    /\ id \in DOMAIN owners
    /\ ContributionSchemaOk(raw)
    /\ owners[id].contributionBHD + Coerce(raw) <= MaxContribution
    /\ owners' = WithDoc(owners, id,
                         Merge(owners[id],
                               [contributionBHD |->
                                   owners[id].contributionBHD + Coerce(raw)]))
    /\ UNCHANGED productVars
    /\ UNCHANGED <<nextOwner, boot, viewOwners, dateRange, today, zone>>

---------------------------------------------------------------------------
(* Specifications *)

\* the steps the clients in C can take on products and sales
Step(C) ==
  /\ UNCHANGED ownerVars
  /\
    \/ \E name \in Names, buy \in Prices : AddProduct(name, buy)
    \/ \E c \in C, n \in 1..MaxProducts : OpenEdit(c, ProductId(n))
    \/ \E c \in C : EditRejected(c)
    \/ \E c \in C : EditMissingSoldPrice(c)
    \/ \E c \in C : EditQuery(c)
    \/ \E c \in C : EditQueryFail(c)
    \/ \E c \in C, v \in EditInputs : EditCommit(c, v)
    \/ \E c \in C : EditCommitFail(c)
    \/ \E c \in C, n \in 1..MaxProducts : OpenSold(c, ProductId(n))
    \/ \E c \in C : MarkSoldRejected(c)
    \/ \E c \in C, raw \in RawNumbers : MarkSold(c, raw)
    \/ \E c \in C : MarkSoldFail(c)
    \/ \E c \in C : CloseDialog(c)
    \/ \E n \in 1..MaxProducts : DeleteProduct(ProductId(n))

Next == Step(Clients)

\* every client of the store
Spec == Init /\ [][Next]_vars

\* one writing client and the dashboard of a reader
NextLive ==
    \/ Step({"c1"})
    \/ DeliverProducts /\ UNCHANGED ownerVars
    \/ DeliverSales /\ UNCHANGED ownerVars

SpecLive == Init /\ [][NextLive]_vars

\* the dashboard of one reader, in any zone, fed with sample snapshots
InitReader == \E z \in Zones : InitZone(z)

NextReader ==
    \/ \E snap \in Changes(viewProducts, {ProductId(1), ProductId(2)},
                           SampleProducts) : ProductsSnapshot(snap)
    \/ \E snap \in {WithDoc(viewSales, AutoSaleId(k), d) :
                       k \in 1..MaxViewSales, d \in SampleSales(zone)}
                   \cup {Without(viewSales, {i}) : i \in DOMAIN viewSales} :
         SalesSnapshot(snap)
    \/ \E snap \in Changes(viewOwners, {OwnerId(1), OwnerId(2)},
                           SampleOwners) : OwnersSnapshot(snap)
    \/ \E range \in SampleRanges(today, zone) : SetDateRange(range)

SpecReader == InitReader /\ [][NextReader]_vars

\* the sales of product 2 the samples hold
SampleSalesOf2(z) == {d \in SampleSales(z) : d.productId = ProductId(2)}

\* the dashboard of one reader of a store where product 2 can have the sale
\* row an Edit writes (its id is the product's) and a row MarkSold wrote
NextStray ==
    \/ \E snap \in Changes(viewProducts, {ProductId(2)}, SampleProducts) :
         ProductsSnapshot(snap)
    \/ \E snap \in {WithDoc(viewSales, i, d) :
                       i \in {ProductId(2), AutoSaleId(1)},
                       d \in SampleSalesOf2(zone)}
                   \cup {Without(viewSales, {i}) : i \in DOMAIN viewSales} :
         SalesSnapshot(snap)
    \/ \E range \in SampleRanges(today, zone) : SetDateRange(range)

SpecStray == InitReader /\ [][NextStray]_vars

\* the clients' dashboards start, and their users add owners and contributions
NextOwners ==
    \/ \E c \in Clients : SeedRead(c)
    \/ \E c \in Clients : SeedCommit(c)
    \/ \E c \in Clients : SeedFail(c)
    \/ \E c \in Clients : Restart(c)
    \/ \E c \in Clients, name \in OwnerNames, raw \in RawNumbers :
         CreateOwner(c, name, raw)
    \/ \E c \in Clients, k \in 1..MaxOwnerIds, raw \in RawNumbers :
         AddContribution(c, OwnerId(k), raw)

SpecOwners == Init /\ [][NextOwners]_vars

---------------------------------------------------------------------------
(* Vocabulary of the properties *)

\* the sale rows of product `id` in `coll`
SalesOf(coll, id) == {i \in DOMAIN coll : coll[i].productId = id}

\* this step is the successful batch.commit() of client c's Edit
EditCommitted(c) ==
    dlg[c].kind = "edit" /\ dlg[c].pc = "queried" /\ dlg'[c] = Closed

\* this step is the rejected batch.commit() of client c's Edit
EditCommitFailed(c) ==
    /\ dlg[c].kind = "edit" /\ dlg[c].pc = "queried"
    /\ dlg'[c].kind = "edit" /\ dlg'[c].pc = "form"

\* this step shows a new toast
Toasted == last' # last

---------------------------------------------------------------------------
(* C1: for every existing Product p, p.sold = true if and only if a Sale   *)
(* document whose id equals p.id exists.                                   *)
C1_SoldIffCanonicalSale ==
    \A id \in DOMAIN products : products[id].sold <=> id \in DOMAIN sales

(* C2: at most one Sale exists per Product id: the number of Sale documents *)
(* with productId = p never exceeds 1.                                      *)
C2_AtMostOneSalePerProduct ==
    \A n \in 1..MaxProducts : Cardinality(SalesOf(sales, ProductId(n))) <= 1

(* C3: an Edit submitted with sold = true and a missing or non-numeric     *)
(* sold price fails validation and issues no document write: a step that   *)
(* shows the resolver's or the missing-sold-price rejection leaves both    *)
(* collections as they were, and no Edit that commits stores sold = true   *)
(* without a numeric sold price.                                           *)
C3_MissingSoldPriceWritesNothing ==
    [][ /\ (Toasted /\ last'.op = "edit"
               /\ last'.cause \in {"schema", "validation"})
           => UNCHANGED store
        /\ \A c \in Clients :
             EditCommitted(c) /\ products'[dlg[c].id].sold
             => products'[dlg[c].id].soldPriceBHD \notin {Null, NaN}
      ]_vars

\* the rejection was shown while the product was sold and had its sale row
C3_Witness ==
    /\ last.op = "edit" /\ last.cause = "validation"
    /\ last.toast = "Missing sold price"
    /\ \E id \in DOMAIN products : products[id].sold /\ id \in DOMAIN sales

(* C4: when a Product that is already sold and already has its Sale        *)
(* document is edited and remains sold, the Sale's soldAt and createdAt    *)
(* keep the values they had before the edit, while updatedAt of both the   *)
(* Product and the Sale is refreshed.  (Stated for an Edit whose dialog    *)
(* was opened on the sold product.)                                        *)
C4_SaleTimestampsKept ==
    [][ \A c \in Clients :
          LET id == dlg[c].id
          IN  (/\ EditCommitted(c)
               /\ dlg[c].product.sold
               /\ products[id].sold /\ id \in DOMAIN sales
               /\ products'[id].sold)
              => /\ sales'[id].soldAt = sales[id].soldAt
                 /\ sales'[id].createdAt = sales[id].createdAt
                 /\ sales'[id].updatedAt = now'
                 /\ products'[id].updatedAt = now'
      ]_vars

C6_RevertDeletesSaleResellIsNew ==
    [][ /\ \A c \in Clients :
             LET id == dlg[c].id
             IN  EditCommitted(c) /\ ~products'[id].sold
                 => /\ products'[id].soldAt = Null
                    /\ id \notin DOMAIN sales'
                    /\ dlg[c].dups \cap DOMAIN sales' = {}
        /\ \A i \in DOMAIN sales' \ DOMAIN sales :
             /\ sales'[i].soldAt = now'
             /\ now' > now
             /\ \A n \in 1..MaxProducts :
                  sales'[i].productId = ProductId(n) /\ revertedAt[n] # Null
                  => sales'[i].soldAt > revertedAt[n]
      ]_vars

\* a product whose sale a revert removed is sold again, with a later soldAt
C6_Witness ==
    \E n \in 1..MaxProducts :
        /\ revertedAt[n] # Null
        /\ ProductId(n) \in DOMAIN products
        /\ products[ProductId(n)].sold
        /\ \E i \in SalesOf(sales, ProductId(n)) :
             /\ sales[i].soldAt > revertedAt[n]
             /\ sales[i].soldAt = products[ProductId(n)].soldAt

(* C7: no reader of the live Product and Sale snapshots ever observes a    *)
(* Product with sold = true and no Sale for it, or a Sale whose Product is *)
(* not sold.                                                               *)
C7_ReaderNeverSeesSoldWithoutSale ==
    \A id \in DOMAIN viewProducts :
        viewProducts[id].sold <=> SalesOf(viewSales, id) # {}

(* C8: if the batch commit of an Edit fails (offline, permission,          *)
(* conflict, or because the Product document no longer exists), none of    *)
(* its writes is applied: both collections are unchanged, and no step      *)
(* creates a Sale for a Product that does not exist.                       *)
C8_FailedCommitWritesNothing ==
    [][ /\ \A c \in Clients : EditCommitFailed(c) => UNCHANGED store
        /\ \A c \in Clients :
             dlg[c].kind = "edit" /\ dlg[c].pc = "queried"
             /\ dlg[c].id \notin DOMAIN products
             => UNCHANGED store \/ dlg'[c] = dlg[c]
        /\ \A i \in DOMAIN sales' \ DOMAIN sales :
             sales'[i].productId \in DOMAIN products'
      ]_vars

\* the commit of an Edit of a deleted product was rejected
C8_Witness ==
    /\ last.op = "edit" /\ last.cause = "commit" /\ last.toast = "Error"
    /\ \E c \in Clients :
         /\ dlg[c].kind = "edit"
         /\ dlg[c].id \notin DOMAIN products
         /\ SalesOf(sales, dlg[c].id) # {}

(* C9: given a Product that has one canonical Sale (id = product id) and   *)
(* one stray Sale (different id, same productId), which the Edit's query   *)
(* read, after an Edit that keeps the product sold commits, exactly the    *)
(* canonical Sale remains for that product.                                *)
C9_ReconciliationKeepsCanonicalOnly ==
    [][ \A c \in Clients :
          LET id == dlg[c].id
          IN  (/\ EditCommitted(c)
               /\ products'[id].sold
               /\ id \in DOMAIN sales
               /\ Cardinality(StraySales(sales, id)) = 1
               /\ StraySales(sales, id) = dlg[c].dups)
              => SalesOf(sales', id) = {id}
      ]_vars

\* an Edit that found the product's own row and one stray has committed
C9_Witness ==
    /\ last.op = "edit" /\ last.toast = "Updated"
    /\ last.hadSale /\ last.strays = 1
    /\ \E id \in DOMAIN products :
         products[id].sold /\ SalesOf(sales, id) = {id}

C11_DeleteRemovesSales ==
    [][ \A n \in 1..MaxProducts :
          (ProductId(n) \in DOMAIN products /\ ProductId(n) \notin DOMAIN products')
          => SalesOf(sales', ProductId(n)) = {}
      ]_vars

---------------------------------------------------------------------------
(* Vocabulary of the reader's properties *)

\* the sales of the reader's snapshot whose productId is no existing product
Orphans == {i \in DOMAIN viewSales : viewSales[i].productId \notin DOMAIN viewProducts}

\* the reader's sales without them
NoOrphans == Without(viewSales, Orphans)

\* the ids of the sales in a list
IdsIn(list) == {list[i].id : i \in 1..Len(list)}

\* the shares shown when the sales snapshot is `saleDocs`
SharesFrom(saleDocs) ==
    LatestShares(viewOwners, LatestSale(saleDocs, viewProducts))

\* the same amounts are shown to every owner
SameShares(a, b) ==
    \A o \in DOMAIN viewOwners : FracEq(ShownShare(a, o), ShownShare(b, o))

\* the sales count, the KPIs and the daily series are what they would be
\* without the orphan sales
OrphansOutOfReports ==
    LET clean == FilteredSales(NoOrphans, viewProducts, dateRange, today, zone)
    IN  /\ IdsIn(filteredSales) \cap Orphans = {}
        /\ kpis = Kpis(viewProducts, clean)
        /\ dailyData = DailyData(clean, zone)

(* C12, as stated: in every state, a Sale whose productId matches no       *)
(* existing Product is excluded from filterSales and adds nothing to       *)
(* totalRevenue, totalProfit, itemsSold, the daily series, or any owner's  *)
(* allocation share.                                                       *)
C12_OrphanSaleAddsNothing ==
    /\ OrphansOutOfReports
    /\ SameShares(latestShares, SharesFrom(NoOrphans))

(* C12, amended: such a Sale is excluded from filterSales and adds nothing *)
(* to totalRevenue, totalProfit, itemsSold and the daily series; it adds   *)
(* nothing to an owner's allocation share as long as some Sale has an      *)
(* existing Product, and when none has, the shares are those of the latest *)
(* Sale that has a productId.                                              *)
C12_OrphanSaleAddsNothingUnlessAlone ==
    /\ OrphansOutOfReports
    /\ IF DOMAIN viewSales \ Orphans # {}
       THEN SameShares(latestShares, SharesFrom(NoOrphans))
       ELSE /\ latestSale = NoSale
               <=> \A i \in DOMAIN viewSales : viewSales[i].productId = NoId
            /\ latestSale # NoSale
               => /\ latestSale.id \in Orphans
                  /\ \A i \in DOMAIN viewSales :
                       viewSales[i].productId # NoId
                       => SaleMs(viewSales[i]) <= SaleMs(latestSale)
                  /\ \A o \in DOMAIN viewOwners :
                       FracEq(ShownShare(latestShares, o),
                              Frac(latestSale.profitBHD * weights[o].n,
                                   weights[o].d))

\* an orphan sale in the range next to a sale of an existing product: one
\* sale is counted, and the shares are those of the existing product's sale
C12_Witness ==
    /\ Orphans # {}
    /\ \E i \in Orphans :
         /\ viewSales[i].productId # NoId
         /\ viewSales[i].soldAt = LastAdmitted(zone)
    /\ kpis.itemsSoldCount = 1
    /\ latestSale # NoSale /\ latestSale.id \notin Orphans
    /\ dateRange.from # Null /\ dateRange.to = LocalDay(SampleDay, zone)
    /\ DOMAIN viewOwners # {}

\* the end of the range in force: range.to, or today when it is absent
RangeEnd == IF dateRange.to # Null THEN dateRange.to ELSE today

\* sale i has an existing product and a soldAt that is, within 60 seconds,
\* on a day of the range: not before the day of `from` when moved 60 s
\* later, not after the day of the end when moved 60 s earlier
Qualifies(i) ==
    /\ viewSales[i].productId \in DOMAIN viewProducts
    /\ viewSales[i].soldAt # Null
    /\ DayIndex(viewSales[i].soldAt + Slack, zone) >= DayIndex(dateRange.from, zone)
    /\ DayIndex(viewSales[i].soldAt - Slack, zone) <= DayIndex(RangeEnd, zone)

(* C13: filterSales returns exactly the Sales whose product exists and     *)
(* whose soldAt t satisfies startOfDay(from) - 60s <= t <=                 *)
(* endOfDay(to, or today when to is absent) + 60s, both bounds inclusive   *)
(* with the same 60-second slack on each side; when range.from is absent   *)
(* it returns the empty list for every input.                              *)
C13_FilterSalesWindow ==
    IF dateRange.from = Null
    THEN filteredSales = <<>>
    ELSE /\ IdsIn(filteredSales) = {i \in DOMAIN viewSales : Qualifies(i)}
         /\ Len(filteredSales) = Cardinality(IdsIn(filteredSales))
         /\ \A k \in 1..Len(filteredSales) :
              filteredSales[k] =
                Merge(viewSales[filteredSales[k].id], [id |-> filteredSales[k].id])

\* with the range [SampleDay, SampleDay], of two sales of an existing product the
\* one at the end of the day plus 60 s is returned, the one 1 ms later is not
C13_Witness ==
    /\ dateRange.from # Null /\ dateRange.to = LocalDay(SampleDay, zone)
    /\ \E i, j \in DOMAIN viewSales :
         /\ viewSales[i].productId \in DOMAIN viewProducts
         /\ viewSales[j].productId \in DOMAIN viewProducts
         /\ viewSales[i].soldAt = LastAdmitted(zone)
         /\ viewSales[j].soldAt = LastAdmitted(zone) + 1
         /\ IdsIn(filteredSales) = {i}

\* the sales that qualify in the current state
QualifyingIds ==
    IF dateRange.from = Null THEN {} ELSE {i \in DOMAIN viewSales : Qualifies(i)}

\* the sum of field f over the documents `ids` of `coll`
RECURSIVE SumIds(_, _, _)
SumIds(ids, coll, f) ==
    IF ids = {} THEN 0
    ELSE LET i == CHOOSE j \in ids : TRUE
         IN  coll[i][f] + SumIds(ids \ {i}, coll, f)

\* the KPIs of the current products with another sales snapshot and range
KpisWith(saleDocs, range) ==
    Kpis(viewProducts, FilteredSales(saleDocs, viewProducts, range, today, zone))

(* C14: for every products/sales snapshot and date range, totalRevenue is  *)
(* the sum of soldPrice, totalProfit the sum of profit and itemsSold the   *)
(* count over the qualifying Sales, while totalCost is the sum of buyPrice *)
(* over Products with sold = false and does not change when only the date  *)
(* range or the Sales change.                                              *)
C14_KpisAreSums ==
    /\ kpis.totalRevenue = SumIds(QualifyingIds, viewSales, "soldPriceBHD")
    /\ kpis.totalProfit = SumIds(QualifyingIds, viewSales, "profitBHD")
    /\ kpis.itemsSoldCount = Cardinality(QualifyingIds)
    /\ kpis.totalCost =
         SumIds({i \in DOMAIN viewProducts : ~viewProducts[i].sold},
                viewProducts, "buyPriceBHD")
    /\ \A range \in SampleRanges(today, zone) :
         KpisWith(viewSales, range).totalCost = kpis.totalCost
    /\ \A gone \in SUBSET DOMAIN viewSales :
         KpisWith(Without(viewSales, gone), dateRange).totalCost = kpis.totalCost

\* P1 (buy 10, unsold), P2 (buy 5, sold for 8 on day D), range [D, D]:
\* revenue 8, profit 3, one item sold, cost 10
C14_Witness ==
    /\ viewProducts = (ProductId(1) :> ProductDoc(10, FALSE, Null, 0)
                       @@ ProductId(2) :> ProductDoc(5, TRUE, 8, 0))
    /\ \E i \in DOMAIN viewSales :
         viewSales = (i :> SaleDoc(ProductId(2), 5, 8, Noon(SampleDay, zone), Noon(SampleDay, zone)))
    /\ dateRange = [from |-> Noon(SampleDay, zone), to |-> LocalDay(SampleDay, zone)]
    /\ kpis = [totalRevenue |-> 8, totalCost |-> 10, totalProfit |-> 3,
               itemsSoldCount |-> 1]

\* date a is an earlier calendar date than date b
DateBefore(a, b) ==
    \/ a.y < b.y
    \/ a.y = b.y /\ a.m < b.m
    \/ a.y = b.y /\ a.m = b.m /\ a.d < b.d

\* the calendar day, in the reader's calendar, of sale i
DayOf(i) == FormatDay(viewSales[i].soldAt, zone)

(* C15: dailySeries has exactly one entry per calendar day (of the         *)
(* reader's calendar, the one format() uses) that has at least one         *)
(* qualifying Sale, each entry's revenue and profit are the sums of        *)
(* soldPrice and profit of that day's qualifying Sales, entries are in     *)
(* strictly ascending day order, and days without sales are absent.        *)
C15_DailySeriesPerDay ==
    /\ {dailyData[k].date : k \in 1..Len(dailyData)} = {DayOf(i) : i \in QualifyingIds}
    /\ Len(dailyData) = Cardinality({DayOf(i) : i \in QualifyingIds})
    /\ \A k \in 1..Len(dailyData) :
         LET that == {i \in QualifyingIds : DayOf(i) = dailyData[k].date}
         IN  /\ dailyData[k].revenue = SumIds(that, viewSales, "soldPriceBHD")
             /\ dailyData[k].profit = SumIds(that, viewSales, "profitBHD")
    /\ \A k \in 1..(Len(dailyData) - 1) :
         DateBefore(dailyData[k].date, dailyData[k + 1].date)

\* two qualifying sales, the first of the list on 1970-01-03 and the second
\* on 1970-01-01: two entries, the earlier day first
C15_Witness ==
    /\ Len(filteredSales) = 2
    /\ FormatDay(filteredSales[1].soldAt, zone) = [y |-> 1970, m |-> 1, d |-> 3]
    /\ FormatDay(filteredSales[2].soldAt, zone) = [y |-> 1970, m |-> 1, d |-> 1]
    /\ Len(dailyData) = 2
    /\ dailyData[1].date.d = 1
    /\ dailyData[1].revenue = filteredSales[2].soldPriceBHD


\* the sum of the contributions of the reader's owners
ContributionSum == SumIds(DOMAIN viewOwners, viewOwners, "contributionBHD")

\* the share shown to owner o, and the amount n / d
Share(o) == ShownShare(latestShares, o)
ShareIs(o, n, d) == FracEq(Share(o), Frac(n, d))

(* C16: for every non-empty owner set and latest sale, each owner's share  *)
(* equals latestSale.profit x weight, where weight = max(0, contribution)  *)
(* / totalContribution when totalContribution > 0 and 1 / ownerCount       *)
(* otherwise (contributions 30 and 70 with profit 20 give 6 and 14;        *)
(* contributions 0 and 0 give 10 and 10); when there is no latest sale     *)
(* every share is 0.                                                       *)
C16_ShareIsProfitTimesWeight ==
    /\ latestSale # NoSale
       => \A o \in DOMAIN viewOwners :
            IF ContributionSum > 0
            THEN ShareIs(o, latestSale.profitBHD * Max0(viewOwners[o].contributionBHD),
                         ContributionSum)
            ELSE ShareIs(o, latestSale.profitBHD, Cardinality(DOMAIN viewOwners))
    /\ latestSale = NoSale => \A o \in DOMAIN viewOwners : ShareIs(o, 0, 1)
    /\ (/\ latestSale # NoSale /\ latestSale.profitBHD = 20
        /\ DOMAIN viewOwners = {OwnerId(1), OwnerId(2)})
       => /\ (/\ viewOwners[OwnerId(1)].contributionBHD = 30
              /\ viewOwners[OwnerId(2)].contributionBHD = 70)
             => ShareIs(OwnerId(1), 6, 1) /\ ShareIs(OwnerId(2), 14, 1)
          /\ (/\ viewOwners[OwnerId(1)].contributionBHD = 0
              /\ viewOwners[OwnerId(2)].contributionBHD = 0)
             => ShareIs(OwnerId(1), 10, 1) /\ ShareIs(OwnerId(2), 10, 1)

\* contributions 30 and 70, latest sale with profit 20: shares 6 and 14
C16_Witness ==
    /\ latestSale # NoSale /\ latestSale.profitBHD = 20
    /\ DOMAIN viewOwners = {OwnerId(1), OwnerId(2)}
    /\ viewOwners[OwnerId(1)].contributionBHD = 30
    /\ viewOwners[OwnerId(2)].contributionBHD = 70
    /\ latestShares[OwnerId(1)] = Frac(20 * 30, 100)
    /\ latestShares[OwnerId(2)] = Frac(20 * 70, 100)

\* the sum of the shares shown to the reader's owners; the shares of one
\* state have one denominator
ShareSum ==
    IF DOMAIN viewOwners = {} \/ latestSale = NoSale THEN Frac(0, 1)
    ELSE Frac(SumIds(DOMAIN latestShares, latestShares, "n"),
              latestShares[CHOOSE o \in DOMAIN latestShares : TRUE].d)

WithProductId == {i \in DOMAIN viewSales : viewSales[i].productId # NoId}

(* C18: latestSale is a Sale with the maximum timestamp (soldAt, or        *)
(* createdAt when soldAt is absent) among the Sales whose product exists;  *)
(* only when no Sale has an existing product is it chosen among all Sales  *)
(* that have a productId set; it is none exactly when no Sale has a        *)
(* productId.                                                              *)
C18_LatestSaleIsNewest ==
    /\ latestSale = NoSale <=> WithProductId = {}
    /\ latestSale # NoSale
       => LET pool == IF DOMAIN viewSales \ Orphans # {}
                      THEN DOMAIN viewSales \ Orphans
                      ELSE WithProductId
          IN  /\ latestSale.id \in pool
              /\ latestSale = Merge(viewSales[latestSale.id], [id |-> latestSale.id])
              /\ \A i \in pool : SaleMs(viewSales[i]) <= SaleMs(latestSale)

\* of two sales, the later one is of a product that no longer exists and the
\* earlier one, which has a createdAt and no soldAt, of an existing product:
\* the earlier one is the latest sale
C18_Witness ==
    /\ latestSale # NoSale
    /\ latestSale.soldAt = Null /\ latestSale.createdAt # Null
    /\ latestSale.productId \in DOMAIN viewProducts
    /\ \E i \in Orphans :
         /\ viewSales[i].productId # NoId
         /\ SaleMs(viewSales[i]) > SaleMs(latestSale)


---------------------------------------------------------------------------
(* Owners: seeding and contributions *)

\* the owner documents that carry a name
Named(n) == {id \in DOMAIN owners : owners[id].name = n}

\* C19: seeding is idempotent: whatever start-ups happened, one after the
\* other or together, the collection holds each owner of the default roster
\* at most once, with contribution 0 when nothing was added to it.
C19_SeedingIsIdempotent ==
    \A k \in 1..Len(Roster) : Cardinality(Named(Roster[k])) <= 1

\* C20: every owner's contribution is >= 0 in every reachable state and no
\* step lowers it: a new owner starts at a value >= 0 and a stored value
\* only changes by growing.
C20_ContributionNeverDecreases ==
    /\ [](\A id \in DOMAIN owners : owners[id].contributionBHD >= 0)
    /\ [][\A id \in DOMAIN owners' :
            /\ owners'[id].contributionBHD >= 0
            /\ id \in DOMAIN owners =>
                 owners'[id].contributionBHD >= owners[id].contributionBHD]_vars

\* an added owner whose contribution was raised to the bound: CreateOwner
\* stores at most MaxPrice, so an AddContribution has acted on it
C20_Witness ==
    \E id \in Created : owners[id].contributionBHD = MaxContribution


---------------------------------------------------------------------------
(* Products and sales: what every stored document satisfies *)

\* a number, neither null nor NaN
IsNumber(x) == x # Null /\ x # NaN

\* C21: in every reachable state a product with sold = true has a sold
\* price that is a number >= 0, and a product with sold = false has no
\* soldAt.
C21_SoldHasPriceUnsoldHasNoSoldAt ==
    \A id \in DOMAIN products :
        /\ products[id].sold =>
             IsNumber(products[id].soldPriceBHD) /\ products[id].soldPriceBHD >= 0
        /\ ~products[id].sold => products[id].soldAt = Null

\* a product that was sold, edited to unsold and sold again
C21_Witness ==
    \E id \in DOMAIN products :
        products[id].sold /\ revertedAt[id[2]] # Null


\* C22: in every reachable state every sale document has
\* profit = soldPrice - buyPrice, whether MarkSold or Edit wrote it last.
C22_ProfitIsSoldMinusBuy ==
    \A i \in DOMAIN sales :
        /\ IsNumber(sales[i].soldPriceBHD) /\ IsNumber(sales[i].buyPriceBHD)
        /\ sales[i].profitBHD = sales[i].soldPriceBHD - sales[i].buyPriceBHD

\* a row an Edit wrote and a row MarkSold wrote, each with a profit that is
\* not 0
C22_Witness ==
    \E i, j \in DOMAIN sales :
        /\ i[1] = "p" /\ sales[i].profitBHD # 0
        /\ j[1] = "r" /\ sales[j].profitBHD # 0


\* this step is the answer to the query of client c's Edit
EditQueried(c) ==
    /\ dlg[c].kind = "edit" /\ dlg[c].pc = "form"
    /\ dlg'[c].kind = "edit" /\ dlg'[c].pc = "queried"

\* C23: a successful Edit of product p deletes every stray sale (productId
\* = p, id # p) that existed when the Edit started, whether it leaves p sold
\* or unsold: the Edit's query takes every stray there is, the dialog keeps
\* that set until the commit, and after the commit none of them is stored.
C23_EditDeletesEveryStray ==
    [][ \A c \in Clients :
          /\ EditQueried(c) =>
               dlg'[c].dups = SalesOf(sales, dlg[c].id) \ {dlg[c].id}
          /\ (dlg[c].kind = "edit" /\ dlg[c].pc = "queried"
              /\ dlg'[c].kind = "edit" /\ dlg'[c].pc = "queried") =>
               dlg'[c].dups = dlg[c].dups
          /\ EditCommitted(c) => dlg[c].dups \cap DOMAIN sales' = {}
      ]_vars

\* an Edit to unsold has committed and deleted more than one stray
C23_Witness ==
    /\ last.op = "edit" /\ last.toast = "Updated" /\ last.strays > 1
    /\ \E id \in DOMAIN products :
         ~products[id].sold /\ SalesOf(sales, id) = {}


\* C24: two Edits of one product run together and both select the same stray
\* sale; the one that commits second commits successfully although the stray
\* is deleted already, and it leaves no stray sale of that product (no new
\* sale of the product was written since its query).
C24_ConcurrentCleanupIsSafe ==
  /\ [](\A c \in Clients :
          (/\ dlg[c].kind = "edit" /\ dlg[c].pc = "queried"
           /\ dlg[c].dups \ DOMAIN sales # {}
           /\ dlg[c].id \in DOMAIN products
           /\ now < MaxTime)
          => ENABLED (\E v \in EditInputs : EditCommit(c, v)))
  /\ [][ \A c \in Clients :
          LET id == dlg[c].id
          IN  (/\ EditCommitted(c)
               /\ dlg[c].dups \ DOMAIN sales # {}
               /\ SalesOf(sales, id) \ {id} \subseteq dlg[c].dups)
              => /\ last'.toast = "Updated"
                 /\ SalesOf(sales', id) \ {id} = {}
      ]_vars

\* the second of two Edits has committed: a stray of its query was deleted
\* already, and the product has no stray
C24_Witness ==
    /\ last.op = "edit" /\ last.toast = "Updated" /\ last.gone > 0
    /\ \E id \in DOMAIN products : SalesOf(sales, id) \ {id} = {}


---------------------------------------------------------------------------
(* The dashboard over a store that holds a stray sale *)

\* C25: when the sale row of an existing product whose id is the product's
\* and a stray row of the same product both have soldAt in the window,
\* filteredSales holds both: itemsSoldCount counts the product twice, and
\* its sold price and its profit are in the totals twice.
C25_StrayIsCountedTwice ==
    \A p \in DOMAIN viewProducts, r \in DOMAIN viewSales :
        (/\ dateRange.from # Null
         /\ p \in DOMAIN viewSales /\ r # p
         /\ viewSales[p].productId = p /\ viewSales[r].productId = p
         /\ Qualifies(p) /\ Qualifies(r)
         /\ SalesOf(viewSales, p) = DOMAIN viewSales)
        => /\ IdsIn(filteredSales) = {p, r}
           /\ kpis.itemsSoldCount = 2
           /\ kpis.totalRevenue =
                viewSales[p].soldPriceBHD + viewSales[r].soldPriceBHD
           /\ kpis.totalProfit = viewSales[p].profitBHD + viewSales[r].profitBHD

\* product 2 exists, its own row and a stray are in the window, and the
\* dashboard counts two items
C25_Witness ==
    /\ dateRange.from # Null
    /\ ProductId(2) \in DOMAIN viewProducts
    /\ DOMAIN viewSales = {ProductId(2), AutoSaleId(1)}
    /\ Qualifies(ProductId(2)) /\ Qualifies(AutoSaleId(1))
    /\ kpis.itemsSoldCount = 2


---------------------------------------------------------------------------
(* Products and sales under dialogs that hold an older product *)

\* C26: in every reachable state, also after an Edit or a MarkSold that was
\* submitted from a product snapshot another client has outdated by toggling
\* the sold flag, every product with sold = true has a soldAt that is not
\* null.
C26_SoldHasSoldAt ==
    \A id \in DOMAIN products :
        products[id].sold => products[id].soldAt # Null


\* C27: in every reachable state, for every sold product and every sale
\* with that productId, the sale's buyPrice, soldPrice and productName equal
\* the product's buyPrice, soldPrice and name.
C27_SaleCopiesProduct ==
    \A id \in DOMAIN products : \A i \in SalesOf(sales, id) :
        products[id].sold =>
            /\ sales[i].buyPriceBHD = products[id].buyPriceBHD
            /\ sales[i].soldPriceBHD = products[id].soldPriceBHD
            /\ sales[i].productName = products[id].name


\* C28: in every reachable state, for every sold product that has a sale,
\* the sale's soldAt equals the product's soldAt (both the commit time of
\* the product's latest change from unsold to sold).
C28_SaleSoldAtIsProductSoldAt ==
    \A id \in DOMAIN products : \A i \in SalesOf(sales, id) :
        products[id].sold => sales[i].soldAt = products[id].soldAt


---------------------------------------------------------------------------
(* The daily series against the totals *)

\* the sum of one amount over the entries of dailyData
DailyTotal(field) ==
    SumSeq([k \in 1..Len(dailyData) |-> dailyData[k][field]])

---------------------------------------------------------------------------
(* The allocation against the date range *)

\* mutant: DashboardPage hands OwnersSection the sales of the date range
OwnersSectionPropsInRange(range) ==
    [owners |-> viewOwners,
     sales |-> [i \in IdsIn(FilteredSales(viewSales, viewProducts, range,
                                         today, zone)) |-> viewSales[i]],
     products |-> viewProducts]

\* the props DashboardPage hands OwnersSection when the selected date range
\* is `range`: owners, sales and products as the listeners delivered them
OwnersSectionProps(range) ==
    [owners |-> viewOwners, sales |-> viewSales, products |-> viewProducts]

\* what OwnersSection computes from its props when the date range is `range`
Allocation(range) ==
    LET props == OwnersSectionProps(range)
        latest == LatestSale(props.sales, props.products)
    IN  [latestSale |-> latest,
         weights |-> Weights(props.owners, latest),
         latestShares |-> LatestShares(props.owners, latest)]

\* C30: the latest sale, the weights and the shares depend on the owners,
\* sales and products snapshots only: with those as they are, every other
\* date range, the cleared one too, gives the latest sale and the shares
\* that are shown now.
C30_AllocationIgnoresDateRange ==
    /\ Allocation(dateRange) =
         [latestSale |-> latestSale, weights |-> weights,
          latestShares |-> latestShares]
    /\ \A range \in SampleRanges(today, zone) :
         Allocation(range) = Allocation(dateRange)

\* the date range is cleared while a sale that is outside every sample range
\* but the default one is the latest sale and two owners share its profit
C30_Witness ==
    /\ dateRange.from = Null
    /\ latestSale # NoSale
    /\ latestSale.soldAt = LastAdmitted(zone) + 1
    /\ Cardinality(DOMAIN latestShares) = 2
    /\ \E o \in DOMAIN latestShares : latestShares[o].n # 0

===========================================================================
